---- MODULE Spec2Model ----
(***************************************************************************)
(* Model of src/browser.py: the Browser facade over a Selenium driver.     *)
(*                                                                         *)
(* The facade is single threaded and blocking.  One public operation runs  *)
(* at a time; each driver call it makes is one step of the model.  The     *)
(* page (the driver's document) is the environment: it may change between  *)
(* any two driver calls.  Every driver call of the running operation is    *)
(* appended to `trace`, so that orderings and counts can be stated.        *)
(*                                                                         *)
(* Strings are sequences of one-character strings.                         *)
(***************************************************************************)
EXTENDS Integers, Sequences, FiniteSets, TLC

(***************************************************************************)
(* Bounds of the model.                                                    *)
(***************************************************************************)
\* Element handles are 1..MaxHandle.
MaxHandle == 2
\* The wait ceiling (3 * 3600 s in the source) counted in polls of the wait.
Ceiling == 2
\* Most click-intercepted answers the driver gives to one click_by_selector.
MaxIntercepts == 2
\* Longest index list given to click_checkboxes_by_index_and_class.
MaxIdxLen == 2
\* Longest value given to a script-injected fill in the escaping check.
MaxValLen == 3

Handles == 1..MaxHandle
\* The parameter strings callers pass (a selector pattern, an id, a name...).
Keys == {"a", "b"}
\* The locator strategies callers pass where the operation takes `by`.
Bys == {"css", "id"}
\* Values typed into fields / chosen in dropdowns.
Values == {<<"v">>, <<"\"", "\n">>}
\* Indexes callers pass to the checkbox helper: below every list, the last
\* element counted from the end, the first two positions, beyond every list.
IdxVals == {0 - (MaxHandle + 1), 0 - 1, 0, 1, MaxHandle}

RECURSIVE SeqsUpTo(_, _)
SeqsUpTo(S, n) ==
    IF n = 0 THEN {<<>>}
    ELSE LET shorter == SeqsUpTo(S, n - 1)
         IN  shorter \cup {Append(s, x) : s \in shorter, x \in S}

IndexLists == SeqsUpTo(IdxVals, MaxIdxLen)

\* The characters of the values of the escaping check: a letter that is also
\* an escape letter, the quote, the backslash, a line break, the statement end.
EscAlphabet == {"n", "\"", "\\", "\n", ";"}
EscValues == SeqsUpTo(EscAlphabet, MaxValLen)

Range(s) == {s[i] : i \in 1..Len(s)}

(***************************************************************************)
(* Selectors: a (strategy, pattern) pair.  The pattern is kept as the      *)
(* shape of the f-string that builds it plus the caller's parameters.      *)
(***************************************************************************)
Selector(by, shape, key, val) ==
    [by |-> by, shape |-> shape, key |-> key, val |-> val]

NoSel == Selector("none", "none", "none", <<>>)

\* The page decides which nodes a selector matches.  Here a node matches by
\* the caller's parameter alone: "a" matches every node, "b" the even ones.
Matches(s, h) ==
    IF s.key = "a" THEN TRUE ELSE h % 2 = 0

\* driver.find_elements(by, selector): the matching nodes in DOM order.
MatchSeq(d, s) == SelectSeq(d, LAMBDA h : Matches(s, h))

\* The rendered text of a node (WebElement.text), as the driver reports it.
ElemText(h) ==
    CASE h % 4 = 1 -> <<" ", "a", " ">>
      [] h % 4 = 2 -> <<"b", " ">>
      [] h % 4 = 3 -> <<" ", "c">>
      [] OTHER     -> <<" ", " ">>

\* The <a> nested in a node, as element.find_element(By.TAG_NAME, "a") names it.
LinkOf(h) == 0 - h

(***************************************************************************)
(* Pure helpers, computed as Python computes them.                         *)
(***************************************************************************)
IsSpace(c) == c \in {" ", "\n", "\t", "\r"}

RECURSIVE LStrip(_)
LStrip(s) ==
    IF s = <<>> THEN <<>>
    ELSE IF IsSpace(Head(s)) THEN LStrip(Tail(s)) ELSE s

RECURSIVE RStrip(_)
RStrip(s) ==
    IF s = <<>> THEN <<>>
    ELSE IF IsSpace(s[Len(s)]) THEN RStrip(SubSeq(s, 1, Len(s) - 1)) ELSE s

\* A plausible slip: only the leading whitespace is removed.
StripLeftOnly(s) == LStrip(s)

\* str.strip(): whitespace removed at both ends, inner whitespace kept.
Strip(s) == RStrip(LStrip(s))

\* [e.text.strip() for e in elements]
TextsOf(hs) == [k \in 1..Len(hs) |-> Strip(ElemText(hs[k]))]

\* An escaper that only protects the quote.
EscCharQuoteOnly(c) == IF c = "\"" THEN <<"\\", "\"">> ELSE <<c>>

\* json.dumps of one character of a str.
EscChar(c) ==
    CASE c = "\"" -> <<"\\", "\"">>
      [] c = "\\" -> <<"\\", "\\">>
      [] c = "\n" -> <<"\\", "n">>
      [] c = "\r" -> <<"\\", "r">>
      [] c = "\t" -> <<"\\", "t">>
      [] OTHER    -> <<c>>

RECURSIVE EscAll(_)
EscAll(v) == IF v = <<>> THEN <<>> ELSE EscChar(Head(v)) \o EscAll(Tail(v))

\* json.dumps(value): the value as a double-quoted string literal.
JsonDumps(v) == <<"\"">> \o EscAll(v) \o <<"\"">>

(***************************************************************************)
(* The public operations, by the way they resolve their target.            *)
(***************************************************************************)
\* Wrappers that end in click_by_selector.
ClickOps == {"click_by_selector", "click_by_css", "click_button_by_text",
             "click_button_by_id", "click_button_by_name",
             "click_radio_button_by_name"}
NativeFillOps == {"fill_input", "fill_input_by_placeholder"}
ScriptFillOps == {"fill_input_by_placeholder_js", "fill_input_by_name_js"}
SelectOps == {"select_dropdown_value_by_id", "select_dropdown_value_by_name"}
TextOps == {"get_elements_text", "get_first_element_text",
            "get_cells_content", "get_first_cell_result"}

\* Operations built on self.find_element.
FindOneOps == {"find_element"} \cup ClickOps \cup NativeFillOps
                  \cup ScriptFillOps \cup SelectOps
\* Operations built on self.find_elements.
FindAllOps == {"find_elements", "click_first_link_in_element",
               "click_checkboxes_by_index_and_class"} \cup TextOps
Ops == FindOneOps \cup FindAllOps \cup {"wait_for_element_visible", "force_click"}

\* Operations whose caller chooses the strategy.
ByOps == {"find_element", "find_elements", "click_by_selector", "fill_input",
          "click_first_link_in_element", "wait_for_element_visible"} \cup TextOps
\* Operations that take a value.
ValueOps == NativeFillOps \cup ScriptFillOps \cup SelectOps
                \cup {"click_radio_button_by_name"}

ByArgs(o) == IF o \in ByOps THEN Bys ELSE {"none"}
KeyArgs(o) == IF o = "force_click" THEN {"none"} ELSE Keys
ValArgs(o) == IF o \in ValueOps THEN Values ELSE {<<>>}
IdxArgs(o) == IF o = "click_checkboxes_by_index_and_class" THEN IndexLists ELSE {<<>>}
HandleArgs(o) == IF o = "force_click" THEN Handles ELSE {0}

\* The selector each operation hands to the locator.
SelectorOf(o, by, key, val) ==
    CASE o = "click_by_css" -> Selector("css", "raw", key, <<>>)
      [] o = "click_button_by_text" -> Selector("xpath", "button_text", key, <<>>)
      [] o \in {"click_button_by_id", "select_dropdown_value_by_id"} ->
             Selector("id", "raw", key, <<>>)
      [] o \in {"click_button_by_name", "fill_input_by_name_js",
                "select_dropdown_value_by_name"} ->
             Selector("name", "raw", key, <<>>)
      [] o = "click_radio_button_by_name" -> Selector("css", "radio", key, val)
      [] o = "click_checkboxes_by_index_and_class" ->
             Selector("css", "checkbox_class", key, <<>>)
      [] o \in {"fill_input_by_placeholder", "fill_input_by_placeholder_js"} ->
             Selector("xpath", "placeholder", key, <<>>)
      [] o = "force_click" -> NoSel
      [] OTHER -> Selector(by, "raw", key, <<>>)

(***************************************************************************)
(* State.                                                                  *)
(***************************************************************************)
VARIABLES
    dom,         \* the document: its nodes (handles) in DOM order
    op,          \* the public operation that is running, "none" when idle
    sel,         \* the selector the running operation locates
    value,       \* the value argument of the running operation
    indexes,     \* the index list of the checkbox helper
    pc,          \* the position of the running operation
    elapsed,     \* polls the current presence wait has slept through
    elems,       \* the handle(s) the operation holds, as a sequence
    i,           \* position of the checkbox loop in `indexes`
    intercepts,  \* click-intercepted answers given to this operation
    trace,       \* the driver calls and sleeps of this operation, in order
    result,      \* what the operation gave its caller
    field        \* the content of the form field a fill operation targets

vars == <<dom, op, sel, value, indexes, pc, elapsed, elems, i,
          intercepts, trace, result, field>>

\* One entry of `trace`.
Ev(ev, s, hs, out, val) ==
    [ev |-> ev, sel |-> s, hs |-> hs, out |-> out, val |-> val]

\* What a caller observes of an operation.
Res(kind, exc, rtype, val) ==
    [kind |-> kind, exc |-> exc, rtype |-> rtype, val |-> val]

\* What a field holds before an operation touches it.
OldContent == <<"old">>

Pending == Res("pending", "none", "none", <<>>)
Returned(rtype, val) == Res("return", "none", rtype, val)
Raised(exc) == Res("raise", exc, "none", <<>>)

Init ==
    /\ dom = <<>>
    /\ op = "none"
    /\ sel = NoSel
    /\ value = <<>>
    /\ indexes = <<>>
    /\ pc = "idle"
    /\ elapsed = 0
    /\ elems = <<>>
    /\ i = 1
    /\ intercepts = 0
    /\ trace = <<>>
    /\ result = Pending
    /\ field = OldContent

(***************************************************************************)
(* The page.                                                               *)
(***************************************************************************)
RemoveAt(d, k) == SubSeq(d, 1, k - 1) \o SubSeq(d, k + 1, Len(d))
InsertAt(d, k, h) == SubSeq(d, 1, k) \o <<h>> \o SubSeq(d, k + 1, Len(d))

\* The page removes a node or attaches a new one.  The page changes at any
\* time; a change is taken where the facade next looks at the document (a
\* poll of a wait, a query), which is where it can first be observed.
PageMutate ==
    /\ pc \in {"idle", "wait", "query"}
    /\ \/ \E k \in 1..Len(dom) : dom' = RemoveAt(dom, k)
       \/ \E h \in Handles \ Range(dom), k \in 0..Len(dom) :
              dom' = InsertAt(dom, k, h)
    /\ UNCHANGED <<op, sel, value, indexes, pc, elapsed, elems, i,
                   intercepts, trace, result, field>>

(***************************************************************************)
(* Calling and returning.                                                  *)
(***************************************************************************)
\* A caller invokes public operation o.
Call(o, by, key, val, idxs, h) ==
    /\ pc = "idle"
    /\ op' = o
    /\ sel' = SelectorOf(o, by, key, val)
    /\ value' = val
    /\ indexes' = idxs
    /\ elems' = IF o = "force_click" THEN <<h>> ELSE <<>>
    /\ pc' = IF o = "force_click" THEN "script_click" ELSE "wait"
    /\ elapsed' = 0
    /\ i' = 1
    /\ intercepts' = 0
    /\ trace' = <<>>
    /\ result' = Pending
    /\ field' = OldContent
    /\ UNCHANGED dom

\* The caller has the outcome; the facade is idle again.
Return ==
    /\ pc = "done"
    /\ op' = "none"
    /\ sel' = NoSel
    /\ value' = <<>>
    /\ indexes' = <<>>
    /\ pc' = "idle"
    /\ elapsed' = 0
    /\ elems' = <<>>
    /\ i' = 1
    /\ intercepts' = 0
    /\ trace' = <<>>
    /\ result' = Pending
    /\ field' = OldContent
    /\ UNCHANGED dom

\* The effect of an exception leaving the operation.
Raise(exc) ==
    /\ pc' = "done"
    /\ result' = Raised(exc)

\* The effect of the operation returning.
Finish(rtype, val) ==
    /\ pc' = "done"
    /\ result' = Returned(rtype, val)

(***************************************************************************)
(* Wait Engine: self.wait.until(presence_of_element_located(...)).         *)
(***************************************************************************)
\* A mis-set ceiling: the wait gives up one poll late.
WaitExpiredLate(e) == e >= Ceiling + 1

\* Whether the ceiling of the wait has elapsed after e polls.
WaitExpired(e) == e >= Ceiling

\* Where an operation goes once its presence wait has succeeded.
AfterWait(o) == IF o = "wait_for_element_visible" THEN "done" ELSE "query"

\* The poll finds the selector present.
WaitPresent ==
    /\ pc = "wait"
    /\ MatchSeq(dom, sel) # <<>>
    /\ trace' = Append(trace, Ev("wait", sel, <<>>, "ok", <<>>))
    /\ pc' = AfterWait(op)
    /\ result' = IF AfterWait(op) = "done" THEN Returned("void", <<>>) ELSE result
    /\ UNCHANGED <<field, dom, op, sel, value, indexes, elapsed, elems, i, intercepts>>

\* The poll finds nothing and the ceiling has not elapsed: sleep one poll.
WaitTick ==
    /\ pc = "wait"
    /\ MatchSeq(dom, sel) = <<>>
    /\ ~WaitExpired(elapsed)
    /\ elapsed' = elapsed + 1
    /\ UNCHANGED <<field, dom, op, sel, value, indexes, pc, elems, i, intercepts,
                   trace, result>>

\* The poll finds nothing and the ceiling has elapsed: TimeoutException.
WaitTimeout ==
    /\ pc = "wait"
    /\ MatchSeq(dom, sel) = <<>>
    /\ WaitExpired(elapsed)
    /\ trace' = Append(trace, Ev("timeout", sel, <<>>, "Timeout", <<>>))
    /\ Raise("Timeout")
    /\ UNCHANGED <<field, dom, op, sel, value, indexes, elapsed, elems, i, intercepts>>

(***************************************************************************)
(* Locator: the query that follows the wait in find_element(s).            *)
(***************************************************************************)
\* Where an operation built on find_element goes once it holds its handle.
AfterFindOne(o) ==
    CASE o = "find_element" -> "done"
      [] o \in ClickOps -> "click"
      [] o \in NativeFillOps \cup ScriptFillOps -> "clear"
      [] OTHER -> "select"

\* Where an operation built on find_elements goes once it holds the handles.
AfterFindAll(o) ==
    CASE o = "find_elements" -> "done"
      [] o \in TextOps -> "text"
      [] o = "click_first_link_in_element" -> "first"
      [] OTHER -> "loop"

\* A stricter multi-match query: no match is an error.
QueryAllOutcomeStrict(m) == IF m = <<>> THEN "NotFound" ELSE "ok"

\* driver.find_elements never fails for want of a match.
QueryAllOutcome(m) == "ok"

\* driver.find_element: the first match, or NoSuchElementException.
QueryOne ==
    /\ pc = "query"
    /\ op \in FindOneOps
    /\ LET m == MatchSeq(dom, sel) IN
         IF m = <<>>
         THEN /\ trace' = Append(trace, Ev("find", sel, <<>>, "NotFound", <<>>))
              /\ Raise("NotFound")
              /\ UNCHANGED elems
         ELSE /\ trace' = Append(trace, Ev("find", sel, <<Head(m)>>, "ok", <<>>))
              /\ elems' = <<Head(m)>>
              /\ pc' = AfterFindOne(op)
              /\ result' = IF AfterFindOne(op) = "done"
                           THEN Returned("handle", <<Head(m)>>) ELSE result
    /\ UNCHANGED <<field, dom, op, sel, value, indexes, elapsed, i, intercepts>>

\* driver.find_elements: every match in DOM order, possibly none.
QueryAll ==
    /\ pc = "query"
    /\ op \in FindAllOps
    /\ LET m == MatchSeq(dom, sel) IN
         /\ trace' = Append(trace, Ev("finds", sel, m, QueryAllOutcome(m), <<>>))
         /\ IF QueryAllOutcome(m) = "ok"
            THEN /\ elems' = m
                 /\ pc' = AfterFindAll(op)
                 /\ result' = IF AfterFindAll(op) = "done"
                              THEN Returned("handles", m) ELSE result
            ELSE /\ Raise(QueryAllOutcome(m))
                 /\ UNCHANGED elems
    /\ UNCHANGED <<field, dom, op, sel, value, indexes, elapsed, i, intercepts>>

(***************************************************************************)
(* Content extraction.                                                     *)
(***************************************************************************)
\* get_first_element_text: texts[0] if texts else None
FirstElementText(texts) ==
    IF texts # <<>> THEN Returned("text", <<texts[1]>>) ELSE Returned("None", <<>>)

\* A first-cell helper that answers None for an empty list.
FirstCellResultGuarded(texts) ==
    IF texts # <<>> THEN Returned("text", <<texts[1]>>) ELSE Returned("None", <<>>)

\* get_first_cell_result: cells_content[0], IndexError on an empty list
FirstCellResult(texts) ==
    IF texts = <<>> THEN Raised("IndexError") ELSE Returned("text", <<texts[1]>>)

\* What each text operation gives its caller from the stripped texts.
TextResult(o, texts) ==
    CASE o = "get_first_element_text" -> FirstElementText(texts)
      [] o = "get_first_cell_result" -> FirstCellResult(texts)
      [] OTHER -> Returned("texts", texts)

\* Reading .text of every handle and stripping it; the driver may fail a read
\* (there is none to fail when the list is empty).
ReadTexts ==
    /\ pc = "text"
    /\ \E out \in {"ok", "failed"} :
         /\ out = "failed" => elems # <<>>
         /\ trace' = Append(trace, Ev("text", NoSel, elems, out, <<>>))
         /\ pc' = "done"
         /\ result' = IF out = "ok" THEN TextResult(op, TextsOf(elems))
                      ELSE Raised("DriverFailure")
    /\ UNCHANGED <<field, dom, op, sel, value, indexes, elapsed, elems, i, intercepts>>

(***************************************************************************)
(* click_by_selector and its wrappers.                                     *)
(***************************************************************************)
\* What the driver may answer to a native click.
ClickOutcomes == {"ok", "intercepted", "failed"}

\* The exception a failed native click raises.
ClickExc(out) ==
    IF out = "intercepted" THEN "ElementClickIntercepted" ELSE "DriverFailure"

\* A retry loop that catches every exception.
ClickNextCatchAll(out) == IF out = "ok" THEN "settle" ELSE "backoff"

\* A retry loop that leaves the loop on an intercepted click as on success.
ClickNextNoRetry(out) ==
    CASE out = "failed" -> "raise"
      [] OTHER -> "settle"

\* A loop that gives up on the first intercepted click.
ClickNextGiveUp(out) == IF out = "ok" THEN "settle" ELSE "raise"

\* A loop that settles and returns whenever the click did not ask for a retry.
ClickNextSettleAlways(out) == IF out = "intercepted" THEN "backoff" ELSE "settle"

\* The try/except of click_by_selector: break, retry, or propagate.
ClickNext(out) ==
    CASE out = "ok" -> "settle"
      [] out = "intercepted" -> "backoff"
      [] OTHER -> "raise"

\* self.find_element(by, selector).click()
ClickNative ==
    /\ pc = "click"
    /\ \E out \in ClickOutcomes :
         /\ out = "intercepted" => intercepts < MaxIntercepts
         /\ trace' = Append(trace, Ev("click", NoSel, elems, out, <<>>))
         /\ intercepts' = IF out = "intercepted" THEN intercepts + 1 ELSE intercepts
         /\ IF ClickNext(out) = "raise"
            THEN Raise(ClickExc(out))
            ELSE /\ pc' = ClickNext(out)
                 /\ UNCHANGED result
    /\ UNCHANGED <<field, dom, op, sel, value, indexes, elapsed, elems, i>>

\* A loop that keeps the handle and only repeats the click.
AfterBackoffReuse == "click"

\* Where the loop resumes after the backoff.
AfterBackoff == "wait"

\* except ElementClickInterceptedException: time.sleep(0.2), then loop again.
Backoff ==
    /\ pc = "backoff"
    /\ trace' = Append(trace, Ev("backoff", NoSel, <<>>, "ok", <<>>))
    /\ pc' = AfterBackoff
    /\ elapsed' = 0
    /\ elems' = IF AfterBackoff = "wait" THEN <<>> ELSE elems
    /\ UNCHANGED <<field, dom, op, sel, value, indexes, i, intercepts, result>>

\* self._sleep(1), then return.
Settle ==
    /\ pc = "settle"
    /\ trace' = Append(trace, Ev("settle", NoSel, <<>>, "ok", <<>>))
    /\ Finish("void", <<>>)
    /\ UNCHANGED <<field, dom, op, sel, value, indexes, elapsed, elems, i, intercepts>>

\* A force_click that swallows the failure of the script call.
ForceClickNextSwallow(out) == "return"

\* force_click has no try: the script call's failure is the caller's.
ForceClickNext(out) == IF out = "ok" THEN "return" ELSE "raise"

\* force_click: driver.execute_script("arguments[0].click();", element)
ForceClick ==
    /\ pc = "script_click"
    /\ \E out \in {"ok", "failed"} :
         /\ trace' = Append(trace, Ev("script_click", NoSel, elems, out, <<>>))
         /\ IF ForceClickNext(out) = "return"
            THEN Finish("void", <<>>) ELSE Raise("DriverFailure")
    /\ UNCHANGED <<field, dom, op, sel, value, indexes, elapsed, elems, i, intercepts>>

(***************************************************************************)
(* click_first_link_in_element.                                            *)
(***************************************************************************)
\* The selector of the nested lookup.
LinkSel == Selector("tag name", "raw", "a", <<>>)

\* self.find_elements(by, selector)[0]
FirstMatch ==
    /\ pc = "first"
    /\ IF elems = <<>>
       THEN /\ Raise("IndexError")
            /\ UNCHANGED elems
       ELSE /\ elems' = <<Head(elems)>>
            /\ pc' = "nested"
            /\ UNCHANGED result
    /\ UNCHANGED <<field, dom, op, sel, value, indexes, elapsed, i, intercepts, trace>>

\* element.find_element(By.TAG_NAME, "a"): a lookup inside the element.
NestedFind ==
    /\ pc = "nested"
    /\ \E out \in {"ok", "NotFound"} :
         IF out = "ok"
         THEN /\ trace' = Append(trace,
                      Ev("nfind", LinkSel, <<LinkOf(elems[1])>>, "ok", <<>>))
              /\ elems' = <<LinkOf(elems[1])>>
              /\ pc' = "linkclick"
              /\ UNCHANGED result
         ELSE /\ trace' = Append(trace, Ev("nfind", LinkSel, <<>>, "NotFound", <<>>))
              /\ Raise("NotFound")
              /\ UNCHANGED elems
    /\ UNCHANGED <<field, dom, op, sel, value, indexes, elapsed, i, intercepts>>

\* link.click(), outside any try.
LinkClick ==
    /\ pc = "linkclick"
    /\ \E out \in ClickOutcomes :
         /\ trace' = Append(trace, Ev("click", NoSel, elems, out, <<>>))
         /\ IF out = "ok" THEN Finish("void", <<>>) ELSE Raise(ClickExc(out))
    /\ UNCHANGED <<field, dom, op, sel, value, indexes, elapsed, elems, i, intercepts>>

(***************************************************************************)
(* click_checkboxes_by_index_and_class.                                    *)
(***************************************************************************)
\* if i < len(checkboxes)
IndexGuard(idx, n) == idx < n

\* checkboxes[idx] as Python indexes a list of length n: the 1-based position
\* it selects, or 0 for IndexError.  A negative index counts from the end.
PyIndex(idx, n) ==
    IF 0 <= idx /\ idx < n THEN idx + 1
    ELSE IF idx < 0 /\ 0 - n <= idx THEN n + idx + 1
    ELSE 0

\* A checkbox loop that swallows an intercepted click.
CheckboxClickRaisesLenient(out) == out = "failed"

\* A checkbox loop that carries on after any failed click.
CheckboxClickRaisesNever(out) == FALSE

\* Whether the bare checkboxes[i].click() lets the outcome leave the helper.
CheckboxClickRaises(out) == out # "ok"

\* for i in indexes: finished.
CheckboxDone ==
    /\ pc = "loop"
    /\ i > Len(indexes)
    /\ Finish("void", <<>>)
    /\ UNCHANGED <<field, dom, op, sel, value, indexes, elapsed, elems, i, intercepts,
                   trace>>

\* The guard rejects the index: nothing happens for it.
CheckboxSkip ==
    /\ pc = "loop"
    /\ i <= Len(indexes)
    /\ ~IndexGuard(indexes[i], Len(elems))
    /\ i' = i + 1
    /\ UNCHANGED <<field, dom, op, sel, value, indexes, pc, elapsed, elems, intercepts,
                   trace, result>>

\* The guard accepts the index and the list has that position: click it.
CheckboxClick ==
    /\ pc = "loop"
    /\ i <= Len(indexes)
    /\ IndexGuard(indexes[i], Len(elems))
    /\ PyIndex(indexes[i], Len(elems)) # 0
    /\ \E out \in ClickOutcomes :
         /\ trace' = Append(trace,
                Ev("click", NoSel, <<elems[PyIndex(indexes[i], Len(elems))]>>,
                   out, <<>>))
         /\ IF CheckboxClickRaises(out)
            THEN /\ Raise(ClickExc(out))
                 /\ UNCHANGED i
            ELSE /\ i' = i + 1
                 /\ UNCHANGED <<pc, result>>
    /\ UNCHANGED <<field, dom, op, sel, value, indexes, elapsed, elems, intercepts>>

\* The guard accepts the index but the list has no such position.
CheckboxIndexError ==
    /\ pc = "loop"
    /\ i <= Len(indexes)
    /\ IndexGuard(indexes[i], Len(elems))
    /\ PyIndex(indexes[i], Len(elems)) = 0
    /\ Raise("IndexError")
    /\ UNCHANGED <<field, dom, op, sel, value, indexes, elapsed, elems, i, intercepts,
                   trace>>

(***************************************************************************)
(* Form interactions.                                                      *)
(***************************************************************************)
\* A fill that writes whatever clear() did.
ClearNextIgnoreFailure(out) == "write"

\* After field.clear(): on to the write, or the failure propagates.
ClearNext(out) == IF out = "ok" THEN "write" ELSE "raise"

\* field.clear()
Clear ==
    /\ pc = "clear"
    /\ \E out \in {"ok", "failed"} :
         /\ trace' = Append(trace, Ev("clear", NoSel, elems, out, <<>>))
         /\ field' = IF out = "ok" THEN <<>> ELSE field
         /\ IF ClearNext(out) = "write"
            THEN /\ pc' = "write"
                 /\ UNCHANGED result
            ELSE Raise("DriverFailure")
    /\ UNCHANGED <<dom, op, sel, value, indexes, elapsed, elems, i, intercepts>>

\* field.send_keys(value): the keystrokes are added to what the field holds.
SendKeys ==
    /\ pc = "write"
    /\ op \in NativeFillOps
    /\ \E out \in {"ok", "failed"} :
         /\ trace' = Append(trace, Ev("keys", NoSel, elems, out, value))
         /\ field' = IF out = "ok" THEN field \o value ELSE field
         /\ IF out = "ok" THEN Finish("void", <<>>) ELSE Raise("DriverFailure")
    /\ UNCHANGED <<dom, op, sel, value, indexes, elapsed, elems, i, intercepts>>

\* The statement before the literal, as one token.
AssignPrefix == "arguments[0].value = "

\* f"arguments[0].value = {escaped};" with escaped = json.dumps(value)
ScriptText(v) == <<AssignPrefix>> \o JsonDumps(v) \o <<";">>

\* The character a backslash escape of a script string literal stands for.
Unescape(c) ==
    CASE c = "n" -> "\n"
      [] c = "r" -> "\r"
      [] c = "t" -> "\t"
      [] OTHER   -> c

NoValue == [ok |-> FALSE, val |-> <<>>]

\* The browser reading a double-quoted string literal of script s from
\* position k on, acc being what it has read: the literal ends at the first
\* unescaped quote, a raw line break inside it is a syntax error, and the
\* statement must end right after it.
RECURSIVE ReadLiteral(_, _, _)
ReadLiteral(s, k, acc) ==
    IF k > Len(s) THEN NoValue
    ELSE IF s[k] = "\"" THEN
         IF k + 1 = Len(s) /\ s[k + 1] = ";"
         THEN [ok |-> TRUE, val |-> acc] ELSE NoValue
    ELSE IF s[k] \in {"\n", "\r"} THEN NoValue
    ELSE IF s[k] = "\\" THEN
         IF k + 1 > Len(s) THEN NoValue
         ELSE ReadLiteral(s, k + 2, Append(acc, Unescape(s[k + 1])))
    ELSE ReadLiteral(s, k + 1, Append(acc, s[k]))

\* The browser running the injected statement: the value it assigns to the
\* field, or no value when the statement does not parse.
RunScript(s) ==
    IF Len(s) >= 2 /\ s[1] = AssignPrefix /\ s[2] = "\""
    THEN ReadLiteral(s, 3, <<>>)
    ELSE NoValue

\* driver.execute_script(f"arguments[0].value = {json.dumps(value)};", field)
\* The call succeeds only if the browser can run the statement.
SetValueByScript ==
    /\ pc = "write"
    /\ op \in ScriptFillOps
    /\ \E out \in {"ok", "failed"} :
         /\ out = "ok" => RunScript(ScriptText(value)).ok
         /\ trace' = Append(trace, Ev("script", NoSel, elems, out, ScriptText(value)))
         /\ field' = IF out = "ok" THEN RunScript(ScriptText(value)).val ELSE field
         /\ IF out = "ok" THEN Finish("void", <<>>) ELSE Raise("DriverFailure")
    /\ UNCHANGED <<dom, op, sel, value, indexes, elapsed, elems, i, intercepts>>

\* Select(element).select_by_value(value)
SelectByValue ==
    /\ pc = "select"
    /\ \E out \in {"ok", "failed"} :
         /\ trace' = Append(trace, Ev("select", NoSel, elems, out, value))
         /\ IF out = "ok" THEN Finish("void", <<>>) ELSE Raise("DriverFailure")
    /\ UNCHANGED <<field, dom, op, sel, value, indexes, elapsed, elems, i, intercepts>>

(***************************************************************************)
(* The specification.                                                      *)
(***************************************************************************)
Invoke ==
    \E o \in Ops :
      \E by \in ByArgs(o), key \in KeyArgs(o), val \in ValArgs(o),
         idxs \in IdxArgs(o), h \in HandleArgs(o) :
           Call(o, by, key, val, idxs, h)

Next ==
    \/ Invoke
    \/ Return
    \/ PageMutate
    \/ WaitPresent
    \/ WaitTick
    \/ WaitTimeout
    \/ QueryOne
    \/ QueryAll
    \/ ReadTexts
    \/ ClickNative
    \/ Backoff
    \/ Settle
    \/ ForceClick
    \/ FirstMatch
    \/ NestedFind
    \/ LinkClick
    \/ CheckboxDone
    \/ CheckboxSkip
    \/ CheckboxClick
    \/ CheckboxIndexError
    \/ Clear
    \/ SendKeys
    \/ SetValueByScript
    \/ SelectByValue

Spec == Init /\ [][Next]_vars

(***************************************************************************)
(* click_by_selector and its wrappers alone, running to completion: the    *)
(* call blocks its thread, every statement of it is executed in turn and   *)
(* the driver answers every call, so a step of the operation that can be   *)
(* taken is eventually taken.                                              *)
(***************************************************************************)
InvokeClick ==
    \E o \in ClickOps :
      \E by \in ByArgs(o), key \in Keys, val \in ValArgs(o) :
        Call(o, by, key, val, <<>>, 0)

ClickStep ==
    \/ WaitPresent
    \/ WaitTick
    \/ WaitTimeout
    \/ QueryOne
    \/ ClickNative
    \/ Backoff
    \/ Settle

NextClick ==
    \/ InvokeClick
    \/ Return
    \/ PageMutate
    \/ ClickStep

SpecClick == Init /\ [][NextClick]_vars /\ WF_vars(ClickStep)

(***************************************************************************)
(* The script-injected fills alone, over every value of EscValues, on a    *)
(* page that holds the field.                                              *)
(***************************************************************************)
InitEsc ==
    /\ dom = <<1>>
    /\ op = "none"
    /\ sel = NoSel
    /\ value = <<>>
    /\ indexes = <<>>
    /\ pc = "idle"
    /\ elapsed = 0
    /\ elems = <<>>
    /\ i = 1
    /\ intercepts = 0
    /\ trace = <<>>
    /\ result = Pending
    /\ field = OldContent

InvokeEsc ==
    \E o \in ScriptFillOps, v \in EscValues : Call(o, "none", "a", v, <<>>, 0)

NextEsc ==
    \/ InvokeEsc
    \/ Return
    \/ WaitPresent
    \/ QueryOne
    \/ Clear
    \/ SetValueByScript

SpecEsc == InitEsc /\ [][NextEsc]_vars

(***************************************************************************)
(* Properties.                                                             *)
(***************************************************************************)
TraceIdx == 1..Len(trace)

\* The native clicks and backoff sleeps of the running operation, in order.
ClickTrace == SelectSeq(trace, LAMBDA e : e.ev \in {"click", "backoff"})

HasOkClick == \E k \in TraceIdx : trace[k].ev = "click" /\ trace[k].out = "ok"

\* ct is: intercepted click, backoff, ..., intercepted click, backoff, ok click.
AlternatesToSuccess(ct) ==
    /\ Len(ct) % 2 = 1
    /\ \A k \in 1..Len(ct) :
         IF k % 2 = 1
         THEN /\ ct[k].ev = "click"
              /\ ct[k].out = IF k = Len(ct) THEN "ok" ELSE "intercepted"
         ELSE ct[k].ev = "backoff"

\* C1: in click_by_selector (and its wrappers), when the driver answers
\* click-intercepted N times and then succeeds, the operation does not fail
\* and its clicks and backoffs are exactly: N intercepted clicks, each followed
\* by one backoff, then the one successful click (N+1 clicks, N backoffs, no
\* backoff before the first click or after the last); a normal return happens
\* only this way.
C1_ClickRetryCount ==
    op \in ClickOps =>
      /\ HasOkClick => pc \in {"settle", "done"} /\ result.kind # "raise"
      /\ (HasOkClick \/ (pc = "done" /\ result.kind = "return")) =>
           /\ AlternatesToSuccess(ClickTrace)
           /\ Len(ClickTrace) = 2 * intercepts + 1

C1_Witness ==
    /\ op \in ClickOps
    /\ pc = "done"
    /\ result.kind = "return"
    /\ intercepts >= 2

\* C2: in click_by_selector, a native click that fails other than by
\* click-intercepted is the last thing the operation does: the failure is
\* what the caller gets, with no locate, click, backoff or settle after it,
\* on the first attempt as after earlier intercepted attempts.
C2_OtherFailureNotRetried ==
    op \in ClickOps =>
      \A k \in TraceIdx :
        (trace[k].ev = "click" /\ trace[k].out = "failed") =>
          /\ k = Len(trace)
          /\ pc = "done"
          /\ result = Raised("DriverFailure")

C2_Witness ==
    /\ op \in ClickOps
    /\ pc = "done"
    /\ result = Raised("DriverFailure")
    /\ intercepts >= 1

\* C3: no public click operation (click by selector, css, button label, id,
\* name, or first link inside a matched container) ever gives its caller the
\* click-intercepted condition.
C3_InterceptNeverSurfaced ==
    op \in {"click_by_selector", "click_by_css", "click_button_by_text",
            "click_button_by_id", "click_button_by_name",
            "click_first_link_in_element"} =>
      result.exc # "ElementClickIntercepted"

\* The multi-match query of the running operation came back empty.
QueryCameBackEmpty ==
    \E k \in TraceIdx : trace[k].ev = "finds" /\ trace[k].hs = <<>>

\* C4 as claimed: both first-text helpers fail with an Empty/NotFound error,
\* and never return a null value, when the presence wait succeeded and the
\* multi-match query returned no element.
C4_FirstTextFailsOnEmpty ==
    (/\ op \in {"get_first_element_text", "get_first_cell_result"}
     /\ pc = "done"
     /\ QueryCameBackEmpty) =>
       /\ result.kind = "raise"
       /\ result.exc \in {"IndexError", "NotFound"}

\* C4 as amended: when the presence wait succeeded and the multi-match query
\* returned no element, get_first_cell_result fails with IndexError and
\* returns no value, while get_first_element_text returns None and does not
\* fail.
C4_FirstTextOnEmpty ==
    (pc = "done" /\ QueryCameBackEmpty) =>
       /\ op = "get_first_cell_result" => result = Raised("IndexError")
       /\ op = "get_first_element_text" => result = Returned("None", <<>>)

C4_Witness ==
    /\ op = "get_first_cell_result"
    /\ pc = "done"
    /\ QueryCameBackEmpty
    /\ result.kind = "raise"

\* The handles of the native clicks of the running operation, in order.
ClickedHandles ==
    LET cs == SelectSeq(trace, LAMBDA e : e.ev = "click")
    IN  [k \in 1..Len(cs) |-> cs[k].hs[1]]

NoClickFailed ==
    \A k \in TraceIdx : trace[k].ev = "click" => trace[k].out = "ok"

\* The handles at the listed indexes that lie in 0..n-1, in the listed order.
InRangeTargets(idxs, hs) ==
    LET kept == SelectSeq(idxs, LAMBDA x : 0 <= x /\ x < Len(hs))
    IN  [k \in 1..Len(kept) |-> hs[kept[k] + 1]]

\* C5: click_checkboxes_by_index_and_class, when no click fails, returns
\* normally having clicked exactly the checkboxes at the listed indexes i with
\* 0 <= i < n, once per occurrence and in the listed order; every other index
\* (negative ones included) is skipped without a click and without a failure.
C5_CheckboxesExactlyInRange ==
    (/\ op = "click_checkboxes_by_index_and_class"
     /\ pc = "done"
     /\ result.exc # "Timeout"
     /\ NoClickFailed) =>
       /\ result = Returned("void", <<>>)
       /\ ClickedHandles = InRangeTargets(indexes, elems)

\* C6: every element lookup the facade issues (find-element, find-elements,
\* and a lookup nested inside an element) directly follows a successful
\* presence wait for the same selector.
C6_EveryLookupWaited ==
    \A k \in TraceIdx :
      trace[k].ev \in {"find", "finds", "nfind"} =>
        /\ k > 1
        /\ trace[k - 1].ev = "wait"
        /\ trace[k - 1].sel = trace[k].sel

\* C7: a presence wait never sleeps past the ceiling, and it times out only
\* with the ceiling exactly elapsed; the Timeout is what the caller of every
\* operation built on the wait gets, and it is the last thing the operation
\* does (no query, click, clear, keystroke or script call, and in
\* click_by_selector no further attempt).  For a selector that is never
\* present the timeout is the operation's only step.
C7_TimeoutAtCeiling ==
    /\ elapsed <= Ceiling
    /\ \A k \in TraceIdx :
         trace[k].ev = "timeout" =>
           /\ k = Len(trace)
           /\ trace[k].sel = sel
           /\ elapsed = Ceiling
           /\ pc = "done"
           /\ result = Raised("Timeout")
    /\ result.exc = "Timeout" =>
         /\ trace # <<>>
         /\ trace[Len(trace)].ev = "timeout"
    /\ (trace # <<>> /\ trace[1].ev = "timeout") => Len(trace) = 1

C7_Witness ==
    /\ op \in ClickOps \cup NativeFillOps \cup ScriptFillOps \cup SelectOps
    /\ pc = "done"
    /\ result = Raised("Timeout")
    /\ Len(trace) = 1

\* C8: when the node matched at wait time is gone at query time, find_element
\* fails with NotFound and that failure ends the operation; find_elements
\* yields the empty sequence without failing; neither waits or queries again.
C8_RaceNotRetried ==
    \A k \in TraceIdx :
      /\ (trace[k].ev = "find" /\ trace[k].hs = <<>>) =>
           /\ k > 1 /\ trace[k - 1].ev = "wait"
           /\ trace[k].out = "NotFound"
           /\ k = Len(trace)
           /\ pc = "done"
           /\ result = Raised("NotFound")
      /\ (trace[k].ev = "finds" /\ trace[k].hs = <<>>) =>
           /\ k > 1 /\ trace[k - 1].ev = "wait"
           /\ trace[k].out = "ok"
           /\ result.exc # "NotFound"
           /\ op = "find_elements" =>
                pc = "done" /\ result = Returned("handles", <<>>)
           /\ \A j \in TraceIdx :
                j > k => trace[j].ev \notin {"wait", "timeout", "find", "finds"}

C8_Witness ==
    /\ op = "find_elements"
    /\ pc = "done"
    /\ Len(trace) = 2
    /\ trace[1].ev = "wait"
    /\ trace[2].ev = "finds" /\ trace[2].hs = <<>>
    /\ result = Returned("handles", <<>>)

NoBackoff == \A k \in TraceIdx : trace[k].ev # "backoff"

\* A native select or click of the running operation that failed is the last
\* thing it did, and its failure is what the caller gets.
FailuresPropagate ==
    \A k \in TraceIdx :
      (trace[k].ev \in {"select", "click"} /\ trace[k].out # "ok") =>
        /\ k = Len(trace)
        /\ pc = "done"
        /\ result = Raised(ClickExc(trace[k].out))

AttemptCount == Len(SelectSeq(trace, LAMBDA e : e.ev \in {"select", "click"}))

\* C9 as claimed: dropdown, radio and checkbox selection never back off and
\* retry; any failed native select/click, click-intercepted included, is what
\* the caller gets.
C9_SelectionsNeverRetry ==
    op \in SelectOps \cup {"click_radio_button_by_name",
                           "click_checkboxes_by_index_and_class"} =>
      NoBackoff /\ FailuresPropagate

\* C9 as amended: dropdown and checkbox selection never back off and retry:
\* at most one native select per dropdown call and one native click per listed
\* index, and any failure of it, click-intercepted included, is what the
\* caller gets.  Radio selection goes through click_by_selector: a
\* click-intercepted answer is followed by a backoff and never reaches the
\* caller; any other click failure does.
C9_SelectionRetryPolicy ==
    /\ op \in SelectOps =>
         NoBackoff /\ FailuresPropagate /\ AttemptCount <= 1
    /\ op = "click_checkboxes_by_index_and_class" =>
         NoBackoff /\ FailuresPropagate /\ AttemptCount <= Len(indexes)
         /\ AttemptCount <= i
    /\ op = "click_radio_button_by_name" =>
         /\ result.exc # "ElementClickIntercepted"
         /\ \A k \in TraceIdx :
              /\ (trace[k].ev = "click" /\ trace[k].out = "intercepted") =>
                   IF k = Len(trace) THEN pc = "backoff"
                   ELSE trace[k + 1].ev = "backoff"
              /\ (trace[k].ev = "click" /\ trace[k].out = "failed") =>
                   k = Len(trace) /\ result = Raised("DriverFailure")

C9_Witness ==
    /\ op = "click_checkboxes_by_index_and_class"
    /\ pc = "done"
    /\ result = Raised("ElementClickIntercepted")
    /\ AttemptCount = 2

\* t is s without its leading and trailing whitespace.
IsTrimOf(t, s) ==
    \E a \in 0..Len(s), b \in 0..Len(s) :
      /\ a + b <= Len(s)
      /\ t = SubSeq(s, a + 1, Len(s) - b)
      /\ \A k \in 1..a : IsSpace(s[k])
      /\ \A k \in (Len(s) - b + 1)..Len(s) : IsSpace(s[k])
      /\ t # <<>> => ~IsSpace(t[1]) /\ ~IsSpace(t[Len(t)])

\* C10: get_elements_text (and get_cells_content) returns one text per
\* element the multi-match query returned, in the same order, each the
\* element's text with leading and trailing whitespace removed.
C10_TextsTrimmedInOrder ==
    (/\ op \in {"get_elements_text", "get_cells_content"}
     /\ pc = "done"
     /\ result.kind = "return") =>
       /\ result.rtype = "texts"
       /\ Len(trace) = 3
       /\ trace[2].ev = "finds"
       /\ Len(result.val) = Len(trace[2].hs)
       /\ \A k \in 1..Len(result.val) :
            IsTrimOf(result.val[k], ElemText(trace[2].hs[k]))

C10_Witness ==
    /\ op = "get_elements_text"
    /\ pc = "done"
    /\ result.kind = "return"
    /\ Len(result.val) >= 2
    /\ result.val[1] # result.val[2]

\* C11: for every value over an alphabet with the quote, the backslash and
\* the line break, the statement built from json.dumps(value) parses as one
\* statement whose string literal reads back as exactly the value, so a
\* script-injected fill that returns leaves the field holding the value.
C11_ScriptFillRoundTrips ==
    op \in ScriptFillOps =>
      /\ RunScript(ScriptText(value)) = [ok |-> TRUE, val |-> value]
      /\ (pc = "done" /\ result.kind = "return") => field = value

C11_Witness ==
    /\ op \in ScriptFillOps
    /\ pc = "done"
    /\ result.kind = "return"
    /\ field = value
    /\ {"\"", "\\", "\n"} \subseteq Range(value)

\* C12: in click_by_selector every native click acts on the handle that a
\* find query returned right before it, that query following its own
\* presence wait, and every attempt after the first starts after the backoff
\* of the one before: no handle is carried from one attempt to the next, so
\* the click goes to the node the page holds at that attempt.
C12_FreshHandlePerAttempt ==
    op \in ClickOps =>
      \A k \in TraceIdx :
        trace[k].ev = "click" =>
          /\ k >= 3
          /\ trace[k - 1].ev = "find"
          /\ trace[k - 1].out = "ok"
          /\ trace[k - 1].hs = trace[k].hs
          /\ trace[k - 2].ev = "wait"
          /\ k > 3 => trace[k - 3].ev = "backoff"

\* Two attempts of one click, the second on a node that replaced the first.
C12_Witness ==
    /\ op \in ClickOps
    /\ pc = "done"
    /\ Len(ClickedHandles) = 2
    /\ ClickedHandles[1] # ClickedHandles[2]
    /\ ClickedHandles[1] \notin Range(dom)

SettleCount == Len(SelectSeq(trace, LAMBDA e : e.ev = "settle"))

\* C13: click_by_selector returns normally only with exactly one settle delay
\* behind it, made last, right after the one successful native click (so
\* after every backoff); when it fails (Timeout, NotFound, a click failure)
\* it has made no settle delay.
C13_SettleOnlyAfterSuccess ==
    op \in ClickOps =>
      /\ (pc = "done" /\ result.kind = "return") =>
           /\ SettleCount = 1
           /\ Len(trace) >= 2
           /\ trace[Len(trace)].ev = "settle"
           /\ trace[Len(trace) - 1].ev = "click"
           /\ trace[Len(trace) - 1].out = "ok"
           /\ \A k \in TraceIdx :
                (trace[k].ev = "click" /\ trace[k].out = "ok") =>
                   k = Len(trace) - 1
      /\ result.kind = "raise" => SettleCount = 0
      /\ \A k \in TraceIdx :
           trace[k].ev = "settle" =>
             k = Len(trace) /\ pc = "done" /\ result = Returned("void", <<>>)

C13_Witness ==
    /\ op \in ClickOps
    /\ pc = "done"
    /\ result.kind = "return"
    /\ SettleCount = 1
    /\ intercepts >= 1

\* A click operation has ended only on a Timeout, a NotFound, a click
\* failure other than click-intercepted, or the settle after a successful
\* click: never on a click-intercepted answer.
EndsOnlyOffIntercept ==
    (op \in ClickOps /\ pc = "done") =>
       /\ result.exc # "ElementClickIntercepted"
       /\ trace # <<>>
       /\ trace[Len(trace)].ev = "click" => trace[Len(trace)].out = "failed"

\* C14: a click operation whose waits complete and whose driver stops
\* answering click-intercepted reaches a terminal state (returned or failed);
\* a click-intercepted answer, however many came before it, never ends the
\* operation: it leads to the backoff, and the backoff to the next locate.
C14_ClickTermination ==
    /\ (op \in ClickOps) ~> (pc = "done")
    /\ []EndsOnlyOffIntercept
    /\ [][(pc = "click" /\ intercepts' = intercepts + 1) => pc' = "backoff"]_vars
    /\ [][pc = "backoff" => (pc' = "wait" /\ intercepts' = intercepts)]_vars

\* A third locate of one click, after two intercepted attempts.
C14_Witness ==
    /\ op \in ClickOps
    /\ pc = "wait"
    /\ intercepts >= 2
    /\ Len(trace) >= 8

FillOps == NativeFillOps \cup ScriptFillOps

IsWrite(e) == e.ev \in {"keys", "script"}

\* C15: a fill of either strategy makes its driver calls in the order
\* presence wait, find, clear, write, all on the one resolved handle; the
\* write (keystrokes of the value, or the script built from it) is made at
\* most once and only after clear() succeeded; when the wait, the find or the
\* clear fails nothing is written to the field.
C15_FillOrder ==
    op \in FillOps =>
      /\ Len(trace) <= 4
      /\ \A k \in TraceIdx :
           /\ trace[k].ev \in {"wait", "timeout"} => k = 1
           /\ trace[k].ev = "find" => k = 2 /\ trace[1].ev = "wait"
           /\ trace[k].ev = "clear" =>
                /\ k = 3
                /\ trace[2].ev = "find" /\ trace[2].out = "ok"
                /\ trace[3].hs = trace[2].hs
           /\ IsWrite(trace[k]) =>
                /\ k = 4
                /\ trace[3].ev = "clear" /\ trace[3].out = "ok"
                /\ trace[4].hs = trace[2].hs
                /\ op \in NativeFillOps =>
                     trace[4].ev = "keys" /\ trace[4].val = value
                /\ op \in ScriptFillOps =>
                     trace[4].ev = "script" /\ trace[4].val = ScriptText(value)
      /\ (pc = "done" /\ result.kind = "return") =>
           Len(trace) = 4 /\ IsWrite(trace[4]) /\ field = value
      /\ (\A k \in TraceIdx : ~(IsWrite(trace[k]) /\ trace[k].out = "ok")) =>
           field \in {OldContent, <<>>}

\* A fill stopped by a failed clear(): the field keeps what it held.
C15_Witness ==
    /\ op \in FillOps
    /\ pc = "done"
    /\ result = Raised("DriverFailure")
    /\ Len(trace) = 3
    /\ trace[3].ev = "clear"
    /\ field = OldContent

\* C16: force_click makes exactly one driver call, the script-level click on
\* the handle it was given: no wait, no query, no native click, no backoff,
\* no settle, no second call; the failure of that call is what the caller
\* gets.
C16_ForceClickSingleCall ==
    op = "force_click" =>
      /\ pc \in {"script_click", "done"}
      /\ pc = "script_click" => trace = <<>>
      /\ pc = "done" =>
           /\ Len(trace) = 1
           /\ trace[1].ev = "script_click"
           /\ trace[1].hs = elems
           /\ result = IF trace[1].out = "ok" THEN Returned("void", <<>>)
                       ELSE Raised("DriverFailure")

C16_Witness ==
    /\ op = "force_click"
    /\ pc = "done"
    /\ result = Raised("DriverFailure")

CheckboxOp == "click_checkboxes_by_index_and_class"

\* C17: the checkbox helper waits once and queries once, and every click is
\* on a handle of that one query's result; a click that fails is the last
\* thing the helper does and its failure is what the caller gets: the loop
\* stays on the failing index, the clicks before it (all successful) are not
\* undone and no later index is clicked.
C17_CheckboxFailureStopsLoop ==
    op = CheckboxOp =>
      /\ \A k \in TraceIdx :
           /\ trace[k].ev \in {"wait", "timeout"} <=> k = 1
           /\ trace[k].ev = "finds" <=> k = 2
           /\ k >= 3 =>
                /\ trace[k].ev = "click"
                /\ trace[2].hs = elems
                /\ trace[k].hs[1] \in Range(elems)
                /\ trace[k].out # "ok" =>
                     /\ k = Len(trace)
                     /\ pc = "done"
                     /\ result = Raised(ClickExc(trace[k].out))
                     /\ i <= Len(indexes)
                     /\ trace[k].hs[1] = elems[PyIndex(indexes[i], Len(elems))]
      /\ AttemptCount <= i

\* The click for the first listed index fails and the second listed index,
\* though in range, is never clicked.
C17_Witness ==
    /\ op = CheckboxOp
    /\ pc = "done"
    /\ result.kind = "raise"
    /\ Len(indexes) = 2
    /\ i = 1
    /\ AttemptCount = 1
    /\ 0 <= indexes[2] /\ indexes[2] < Len(elems)

====
